---- MODULE Spec2Model ----
(***************************************************************************)
(* A model of coafill/scholar.py: the co-author pipeline of get_coauthors  *)
(* (year filter, author collection, name canonicalisation, name            *)
(* de-duplication, self removal, sort, affiliation lookup, affiliation     *)
(* clean-up, CSV dump) and its pure helpers.                               *)
(*                                                                         *)
(* A Python str is a sequence of one-character strings, so that split,     *)
(* join, lower, "in" and the comparison used by list.sort are computed on  *)
(* the characters the way Python computes them.                            *)
(***************************************************************************)
EXTENDS Integers, Sequences, FiniteSets, TLC

VARIABLES
    pc,                   \* position in get_coauthors / the operation under check
    coauthors,            \* argument of _nsf_name_cleanup
    cleaned_coauthors,    \* its result
    affiliations_arg,     \* argument of _nsf_affiliation_cleanup
    cleaned_affiliations, \* its result
    order_a,              \* the canonical names in one iteration order of list(set(...))
    order_b,              \* the same names in another iteration order
    dedup_a,              \* the seen-set loop over order_a: [i, unique_coauthors, seen_names]
    dedup_b,              \* the seen-set loop over order_b
    years_back,           \* get_coauthors: <<>> for None, <<n>> for the int n
    filename,             \* get_coauthors: <<>> for None, <<path>> for a path
    profile,              \* what _get_scholar_profile returns: [name, publications]
    year_cutoff,          \* line 53: <<>> for None, <<year>>
    papers_subset,        \* lines 119-126
    all_coauthors,        \* the list built in _get_coauthors_from_pubs, returned at line
                          \* 179 and held as co_authors by get_coauthors (one list object)
    affiliations,         \* the list built by the lookup loop, then the cleaned list
    lookups,              \* the calls of get_scholar_info so far: [name, outcome]
    from_pubs,            \* the value _get_coauthors_from_pubs returned at line 179
    csv,                  \* the lines _dump_to_csv has written
    result                \* what get_coauthors returns at line 63

vars_fn == <<coauthors, cleaned_coauthors, affiliations_arg, cleaned_affiliations>>

vars_dedup == <<order_a, order_b, dedup_a, dedup_b>>

vars_in == <<years_back, filename, profile>>

vars_pubs == <<year_cutoff, papers_subset, all_coauthors, affiliations, lookups, from_pubs>>

vars_out == <<csv, result>>

vars_pipe == <<vars_in, vars_pubs, vars_out>>

vars == <<pc, vars_fn, vars_dedup, vars_pipe>>

-----------------------------------------------------------------------------
(* Python str operations on character sequences *)

\* The characters of the model in code point order (Python compares str by code point).
Ascii ==
    <<" ", "\"", ",", ".", ":", "@",
      "A", "B", "C", "D", "E", "F", "G", "H", "I", "J", "K", "L", "M",
      "N", "O", "P", "Q", "R", "S", "T", "U", "V", "W", "X", "Y", "Z",
      "a", "b", "c", "d", "e", "f", "g", "h", "i", "j", "k", "l", "m",
      "n", "o", "p", "q", "r", "s", "t", "u", "v", "w", "x", "y", "z">>

\* the rank of every character in code point order
OrdOf ==
    [c \in { Ascii[i] : i \in 1..Len(Ascii) } |-> CHOOSE i \in 1..Len(Ascii) : Ascii[i] = c]

Ord(c) ==
    OrdOf[c]

UpperLetters ==
    <<"A", "B", "C", "D", "E", "F", "G", "H", "I", "J", "K", "L", "M",
      "N", "O", "P", "Q", "R", "S", "T", "U", "V", "W", "X", "Y", "Z">>

LowerLetters ==
    <<"a", "b", "c", "d", "e", "f", "g", "h", "i", "j", "k", "l", "m",
      "n", "o", "p", "q", "r", "s", "t", "u", "v", "w", "x", "y", "z">>

\* the lower-case letter of every upper-case letter
LowerOf ==
    [c \in { UpperLetters[i] : i \in 1..Len(UpperLetters) } |->
        LowerLetters[CHOOSE i \in 1..Len(UpperLetters) : UpperLetters[i] = c]]

\* str.lower() on one character
LowerChar(c) ==
    IF c \in DOMAIN LowerOf THEN LowerOf[c] ELSE c

\* s.lower()
Lower(s) ==
    [i \in 1..Len(s) |-> LowerChar(s[i])]

\* sub occurs in s at position i
OccursAt(s, sub, i) ==
    /\ i >= 1
    /\ i + Len(sub) - 1 <= Len(s)
    /\ \A k \in 1..Len(sub) : s[i + k - 1] = sub[k]

\* sub in s
Contains(s, sub) ==
    \E i \in 1..(Len(s) + 1) : OccursAt(s, sub, i)

\* s.find(sub) as a 1-based position, 0 when sub does not occur
Find(s, sub) ==
    IF Contains(s, sub)
    THEN CHOOSE i \in 1..(Len(s) + 1) :
            /\ OccursAt(s, sub, i)
            /\ \A j \in 1..(i - 1) : ~OccursAt(s, sub, j)
    ELSE 0

\* s[i:] with a 1-based i
From(s, i) ==
    SubSeq(s, i, Len(s))

RECURSIVE Split(_, _)
\* s.split(sep) for a non-empty sep
Split(s, sep) ==
    LET p == Find(s, sep)
    IN  IF p = 0
        THEN <<s>>
        ELSE <<SubSeq(s, 1, p - 1)>> \o Split(From(s, p + Len(sep)), sep)

RECURSIVE Join(_, _)
\* sep.join(parts)
Join(parts, sep) ==
    IF Len(parts) = 0 THEN <<>>
    ELSE IF Len(parts) = 1 THEN parts[1]
    ELSE parts[1] \o sep \o Join(Tail(parts), sep)

SPACE == <<" ">>
COMMA_SPACE == <<",", " ">>
QUOTE == <<"\"">>

-----------------------------------------------------------------------------
(* _nsf_name_cleanup *)

\* line 199: the last token, ", ", the other tokens joined by spaces
ReorderedName(coauthor) ==
    LET name_parts == Split(coauthor, SPACE)
    IN  name_parts[Len(name_parts)] \o COMMA_SPACE
            \o Join(SubSeq(name_parts, 1, Len(name_parts) - 1), SPACE)

\* lines 202-204 index notlastname[1]: an IndexError when the first-name segment
\* is one token of fewer than 2 characters
NsfNameCleanupOneRaises(coauthor) ==
    /\ Len(Split(coauthor, SPACE)) > 2
    /\ LET halves == Split(ReorderedName(coauthor), COMMA_SPACE)
       IN  \/ Len(halves) < 2
           \/ LET notlastname == Split(halves[2], SPACE)
              IN  Len(notlastname[1]) < 2 /\ Len(notlastname) < 2

\* the body of the loop of _nsf_name_cleanup for one coauthor
NsfNameCleanupOne(coauthor) ==
    LET name_parts == Split(coauthor, SPACE)
        reordered_name == ReorderedName(coauthor)
    IN  IF Len(name_parts) > 2
        THEN LET notlastname == Split(Split(reordered_name, COMMA_SPACE)[2], SPACE)
             IN  IF Len(notlastname[1]) < 2
                 THEN name_parts[Len(name_parts)] \o COMMA_SPACE \o notlastname[2]
                          \o SPACE \o notlastname[1]
                 ELSE reordered_name
        ELSE reordered_name

\* _nsf_name_cleanup(coauthors) raises
NsfNameCleanupRaises(names) ==
    \E i \in 1..Len(names) : NsfNameCleanupOneRaises(names[i])

\* _nsf_name_cleanup(coauthors)
NsfNameCleanup(names) ==
    [i \in 1..Len(names) |-> NsfNameCleanupOne(names[i])]

-----------------------------------------------------------------------------
(* _nsf_affiliation_cleanup *)

AT_WORD == <<" ", "a", "t", " ">>
AT_SIGN == <<"@">>
AT_SIGN_SPACE == <<"@", " ">>

\* the title words of line 233
TitleWords ==
    { <<"p", "r", "o", "f", "e", "s", "s", "o", "r">>,
      <<"s", "t", "u", "d", "e", "n", "t">>,
      <<"s", "c", "i", "e", "n", "t", "i", "s", "t">>,
      <<"r", "e", "s", "e", "a", "r", "c", "h", "e", "r">>,
      <<"l", "e", "c", "t", "u", "r", "e", "r">>,
      <<"f", "e", "l", "l", "o", "w">>,
      <<"s", "c", "h", "o", "l", "a", "r">> }

HasTitle(affiliation) ==
    LET lowered == Lower(affiliation)
    IN  \E word \in TitleWords : Contains(lowered, word)

\* lines 238 and 241 index [1] of a split: an IndexError when the separator,
\* matched on the lower-cased text, does not occur in the text itself
NsfAffiliationCleanupOneRaises(affiliation) ==
    /\ affiliation # <<>>
    /\ HasTitle(affiliation)
    /\ IF Contains(Lower(affiliation), AT_WORD)
       THEN Len(Split(affiliation, AT_WORD)) < 2
       ELSE /\ Contains(Lower(affiliation), AT_SIGN)
            /\ Len(Split(affiliation, AT_SIGN_SPACE)) < 2

\* the body of the loop of _nsf_affiliation_cleanup for one affiliation
NsfAffiliationCleanupOne(affiliation) ==
    IF affiliation = <<>> THEN affiliation
    ELSE LET parts == Split(affiliation, COMMA_SPACE)
         IN  IF HasTitle(affiliation)
             THEN IF Contains(Lower(affiliation), AT_WORD)
                  THEN Split(affiliation, AT_WORD)[2]
                  ELSE IF Contains(Lower(affiliation), AT_SIGN)
                  THEN Split(affiliation, AT_SIGN_SPACE)[2]
                  ELSE IF Len(parts) > 1
                       THEN IF Len(parts) > 2
                            THEN Join(Tail(parts), COMMA_SPACE)
                            ELSE parts[2]
                       ELSE <<>>
             ELSE affiliation

\* _nsf_affiliation_cleanup(affiliations) raises
NsfAffiliationCleanupRaises(affs) ==
    \E i \in 1..Len(affs) : NsfAffiliationCleanupOneRaises(affs[i])

\* _nsf_affiliation_cleanup(affiliations)
NsfAffiliationCleanup(affs) ==
    [i \in 1..Len(affs) |-> NsfAffiliationCleanupOne(affs[i])]

-----------------------------------------------------------------------------
(* The seen-set loop of _get_coauthors_from_pubs, lines 143-155 *)

\* x in list
InList(list, x) ==
    \E i \in 1..Len(list) : list[i] = x

\* list.remove(x): the list without the first occurrence of x
Remove(list, x) ==
    LET p == CHOOSE i \in 1..Len(list) :
                 list[i] = x /\ \A j \in 1..(i - 1) : list[j] # x
    IN  SubSeq(list, 1, p - 1) \o SubSeq(list, p + 1, Len(list))

\* line 146 unpacks coauthor.split(", ") into two names: a ValueError otherwise
DedupIterationRaises(coauthor) ==
    Len(Split(coauthor, COMMA_SPACE)) # 2

\* SeenKey without line 147: the whole first-name segment is kept in the key
SeenKeyWholeFirstName(coauthor) ==
    LET halves == Split(coauthor, COMMA_SPACE)
    IN  <<halves[1], halves[2]>>

\* lines 146-147: (last_name, first token of the first-name segment)
SeenKey(coauthor) ==
    LET halves == Split(coauthor, COMMA_SPACE)
    IN  <<halves[1], Split(halves[2], SPACE)[1]>>

\* the state of the loop before its first iteration (lines 143-144)
DedupStart ==
    [i |-> 1, unique_coauthors |-> <<>>, seen_names |-> {}]

\* DedupIteration without lines 152-155: the first name seen for a key stays
DedupIterationKeepsFirst(st, coauthor) ==
    LET key == SeenKey(coauthor)
    IN  IF key \notin st.seen_names
        THEN [i |-> st.i + 1,
              unique_coauthors |-> Append(st.unique_coauthors, coauthor),
              seen_names |-> st.seen_names \cup {key}]
        ELSE [st EXCEPT !.i = st.i + 1]

\* one iteration of the loop (lines 146-155) for coauthor
DedupIteration(st, coauthor) ==
    LET key == SeenKey(coauthor)
        bare == key[1] \o COMMA_SPACE \o key[2]
    IN  IF key \notin st.seen_names
        THEN [i |-> st.i + 1,
              unique_coauthors |-> Append(st.unique_coauthors, coauthor),
              seen_names |-> st.seen_names \cup {key}]
        ELSE IF Split(coauthor, COMMA_SPACE)[2] # key[2]
                  /\ InList(st.unique_coauthors, bare)
        THEN [i |-> st.i + 1,
              unique_coauthors |-> Append(Remove(st.unique_coauthors, bare), coauthor),
              seen_names |-> st.seen_names]
        ELSE [st EXCEPT !.i = st.i + 1]

RECURSIVE DedupFrom(_, _)
\* the rest of the loop over names from state st
DedupFrom(st, names) ==
    IF st.i > Len(names) THEN st
    ELSE DedupFrom(DedupIteration(st, names[st.i]), names)

\* the whole loop: unique_coauthors at line 157
Dedup(names) ==
    DedupFrom(DedupStart, names).unique_coauthors

\* the loop raises on one of the names
DedupRaises(names) ==
    \E i \in 1..Len(names) : DedupIterationRaises(names[i])

-----------------------------------------------------------------------------
(* get_scholar_info *)

NO_AFFILIATION_LISTED ==
    <<"N", "o", " ", "a", "f", "f", "i", "l", "i", "a", "t", "i", "o", "n", " ",
      "l", "i", "s", "t", "e", "d">>

ERROR_PREFIX ==
    <<"A", "n", " ", "e", "r", "r", "o", "r", " ", "o", "c", "c", "u", "r", "r", "e", "d",
      ":", " ">>

\* GetScholarInfo with the default of line 20 returned when no author is found
GetScholarInfoDefaultText(outcome) ==
    CASE outcome.kind = "found" -> outcome.text
      [] outcome.kind = "no_key" -> <<>>
      [] outcome.kind = "not_found" -> NO_AFFILIATION_LISTED
      [] outcome.kind = "error" -> ERROR_PREFIX \o outcome.text

\* What scholarly.search_author does for one name: the first author found, with
\* an affiliation ("found") or without the key ("no_key"), no author at all
\* ("not_found": next raises StopIteration), or another exception ("error").
\* get_scholar_info turns it into the string it returns (lines 14-26).
GetScholarInfo(outcome) ==
    CASE outcome.kind = "found" -> outcome.text
      [] outcome.kind = "no_key" -> <<>>
      [] outcome.kind = "not_found" -> <<>>
      [] outcome.kind = "error" -> ERROR_PREFIX \o outcome.text

-----------------------------------------------------------------------------
(* get_coauthors and _get_coauthors_from_pubs *)

\* datetime.date.today().year (lines 52 and 118)
CurrentYear == 2026

\* the truth value of an int | None
TruthyInt(opt) ==
    opt # <<>> /\ opt[1] # 0

\* the truth value of a str | None
TruthyStr(opt) ==
    opt # <<>> /\ opt[1] # <<>>

\* line 53
YearCutoff(yb) ==
    IF TruthyInt(yb) THEN <<CurrentYear - yb[1]>> ELSE <<>>

\* the condition of the comprehension at line 123
KeepPaper(paper, cutoff) ==
    /\ paper.has_bib
    /\ (IF paper.pub_year = <<>> THEN CurrentYear ELSE paper.pub_year[1]) >= cutoff

\* lines 119-126
FilterByYear(papers, cutoff) ==
    IF TruthyInt(cutoff)
    THEN SelectSeq(papers, LAMBDA paper : KeepPaper(paper, cutoff[1]))
    ELSE papers

SEP_AND == <<" ", "a", "n", "d", " ">>

RECURSIVE FetchAllCoauthors(_)
\* lines 129-134: the author strings of the papers, split on " and "
FetchAllCoauthors(papers) ==
    IF Len(papers) = 0 THEN <<>>
    ELSE Split(papers[1].author, SEP_AND) \o FetchAllCoauthors(Tail(papers))

\* the orders in which list(set(names)) may hold the distinct names (line 140)
ListOfSet(names) ==
    LET S == { names[i] : i \in 1..Len(names) }
    IN  { o \in [1..Cardinality(S) -> S] : \A i, j \in 1..Cardinality(S) : o[i] = o[j] => i = j }

\* a < b for two str: the first differing code point decides, a prefix is smaller
StrLess(a, b) ==
    \E k \in 1..(Len(b)) :
        /\ \A j \in 1..(k - 1) : j <= Len(a) /\ a[j] = b[j]
        /\ \/ k = Len(a) + 1
           \/ k <= Len(a) /\ Ord(a[k]) < Ord(b[k])

RECURSIVE Insert(_, _)
Insert(sorted, x) ==
    IF Len(sorted) = 0 THEN <<x>>
    ELSE IF StrLess(x, sorted[1]) THEN <<x>> \o sorted
    ELSE <<sorted[1]>> \o Insert(Tail(sorted), x)

\* Sorted without line 165: the list is left in the order of the seen-set loop
Unsorted(list) ==
    list

RECURSIVE Sorted(_)
\* list.sort() of a list of str (line 165)
Sorted(list) ==
    IF Len(list) = 0 THEN <<>>
    ELSE Insert(Sorted(SubSeq(list, 1, Len(list) - 1)), list[Len(list)])

\* lines 158-159
RemoveSelf(list, my_name) ==
    IF my_name # <<>> /\ InList(list, my_name) THEN Remove(list, my_name) ELSE list

\* line 277: the name wrapped in double quotes
Quoted(name) ==
    QUOTE \o name \o QUOTE

\* line 277 for every i: co_authors after _dump_to_csv
DumpedCoauthors(co_authors) ==
    [i \in 1..Len(co_authors) |-> Quoted(co_authors[i])]

\* line 278 for every i: the lines written
DumpedLines(co_authors, affs) ==
    [i \in 1..Len(co_authors) |->
        <<" ">> \o Quoted(co_authors[i]) \o <<",", "\"">> \o affs[i] \o <<"\"", " ", "\n">>]

-----------------------------------------------------------------------------
(* Bounded inputs *)

\* sequences over S of length lo..hi
SeqsOf(S, lo, hi) ==
    UNION { [1..n -> S] : n \in lo..hi }

\* the concatenation of a sequence of strings
Concat(parts) ==
    Join(parts, <<>>)

MaxTokens == 4

\* tokens of raw author names: an initial, a two-letter and longer names
NameTokens ==
    { <<"J">>, <<"A", "l">>, <<"A", "n", "n">>, <<"S", "m", "i", "t", "h">> }

RawNames ==
    { Join(t, SPACE) : t \in SeqsOf(NameTokens, 2, MaxTokens) }

MaxPieces == 3

\* pieces of affiliation strings
AffPieces ==
    { <<"P", "r", "o", "f", "e", "s", "s", "o", "r">>,
      <<"s", "t", "u", "d", "e", "n", "t">>,
      <<" ", "a", "t", " ">>,
      <<" ", "A", "T", " ">>,
      <<"M", "I", "T">>,
      <<",", " ">>,
      <<"@">>,
      <<" ">> }

Affiliations ==
    { Concat(p) : p \in SeqsOf(AffPieces, 0, MaxPieces) }

MaxNames == 3

\* well-formed canonical names: two persons Smith with bare and richer variants,
\* a different first name, a different last name
CanonicalNames ==
    { <<"S", "m", "i", "t", "h", ",", " ", "J", "o", "h", "n">>,
      <<"S", "m", "i", "t", "h", ",", " ", "J", "o", "h", "n", " ", "A">>,
      <<"S", "m", "i", "t", "h", ",", " ", "J", "o", "h", "n", " ", "B">>,
      <<"S", "m", "i", "t", "h", ",", " ", "J", "a", "n", "e">>,
      <<"D", "o", "e", ",", " ", "J", "o", "h", "n">> }

MaxPapers == 2

AUTHORS_TWO ==
    <<"J", "o", "h", "n", " ", "S", "m", "i", "t", "h", " ", "a", "n", "d", " ",
      "J", "a", "n", "e", " ", "D", "o", "e">>

AUTHORS_ONE ==
    <<"J", "o", "h", "n", " ", "A", " ", "S", "m", "i", "t", "h">>

\* publications: a year before, inside and without the window; two author strings
Papers ==
    { [has_bib |-> TRUE, pub_year |-> y, author |-> a] :
          y \in {<<>>, <<2020>>, <<2024>>}, a \in {AUTHORS_TWO, AUTHORS_ONE} }

JOHN_SMITH == <<"J", "o", "h", "n", " ", "S", "m", "i", "t", "h">>

DOE_JANE == <<"D", "o", "e", ",", " ", "J", "a", "n", "e">>

\* the name of the profile: as the author lists state it, already canonical, or missing
ProfileNames ==
    { JOHN_SMITH, DOE_JANE, <<>> }

\* years_back: no limit, this year only, the default of line 30
YearsBack ==
    { <<>>, <<0>>, <<4>> }

Filenames ==
    { <<>>, << <<"c", "o", "a", "u", "t", "h", "o", "r", "s", ".", "c", "s", "v">> >> }

PROFESSOR_AT_MIT ==
    <<"P", "r", "o", "f", "e", "s", "s", "o", "r", " ", "a", "t", " ", "M", "I", "T">>

TIMEOUT == <<"t", "i", "m", "e", "o", "u", "t">>

CANNOT_FETCH ==
    <<"C", "a", "n", "n", "o", "t", " ", "F", "e", "t", "c", "h", " ", "f", "r", "o", "m", " ",
      "G", "o", "o", "g", "l", "e", " ", "S", "c", "h", "o", "l", "a", "r", ".">>

SCHOLAR_AT_PROXY ==
    <<"s", "c", "h", "o", "l", "a", "r", "@", "p", "r", "o", "x", "y">>

\* what one lookup may do
LookupOutcomes ==
    { [kind |-> "found", text |-> PROFESSOR_AT_MIT],
      [kind |-> "no_key", text |-> <<>>],
      [kind |-> "not_found", text |-> <<>>],
      [kind |-> "error", text |-> TIMEOUT],
      [kind |-> "error", text |-> CANNOT_FETCH],
      [kind |-> "error", text |-> SCHOLAR_AT_PROXY] }

\* the elements of a list
Range(list) ==
    { list[i] : i \in 1..Len(list) }

\* b is a reordering of a
IsPermutation(a, b) ==
    /\ Len(a) = Len(b)
    /\ \A x \in Range(a) \cup Range(b) :
          Cardinality({i \in 1..Len(a) : a[i] = x}) = Cardinality({i \in 1..Len(b) : b[i] = x})

-----------------------------------------------------------------------------
(* _nsf_name_cleanup applied to one raw name *)

InitName ==
    /\ pc = "call"
    /\ coauthors \in { <<n>> : n \in RawNames }
    /\ cleaned_coauthors = <<>>
    /\ affiliations_arg = <<>>
    /\ cleaned_affiliations = <<>>
    /\ order_a = <<>> /\ order_b = <<>> /\ dedup_a = DedupStart /\ dedup_b = DedupStart
    /\ years_back = <<>> /\ filename = <<>> /\ profile = <<>> /\ year_cutoff = <<>>
    /\ papers_subset = <<>> /\ all_coauthors = <<>> /\ affiliations = <<>>
    /\ lookups = <<>> /\ from_pubs = <<>> /\ csv = <<>> /\ result = <<>>

CallNsfNameCleanup ==
    /\ pc = "call"
    /\ IF NsfNameCleanupRaises(coauthors)
       THEN pc' = "raised" /\ UNCHANGED cleaned_coauthors
       ELSE pc' = "returned" /\ cleaned_coauthors' = NsfNameCleanup(coauthors)
    /\ UNCHANGED <<coauthors, affiliations_arg, cleaned_affiliations, vars_dedup, vars_pipe>>

NextName ==
    CallNsfNameCleanup

SpecName ==
    InitName /\ [][NextName]_vars

-----------------------------------------------------------------------------
(* _nsf_affiliation_cleanup applied to one affiliation *)

InitAffil ==
    /\ pc = "call"
    /\ affiliations_arg \in { <<a>> : a \in Affiliations }
    /\ cleaned_affiliations = <<>>
    /\ coauthors = <<>>
    /\ cleaned_coauthors = <<>>
    /\ order_a = <<>> /\ order_b = <<>> /\ dedup_a = DedupStart /\ dedup_b = DedupStart
    /\ years_back = <<>> /\ filename = <<>> /\ profile = <<>> /\ year_cutoff = <<>>
    /\ papers_subset = <<>> /\ all_coauthors = <<>> /\ affiliations = <<>>
    /\ lookups = <<>> /\ from_pubs = <<>> /\ csv = <<>> /\ result = <<>>

CallNsfAffiliationCleanup ==
    /\ pc = "call"
    /\ IF NsfAffiliationCleanupRaises(affiliations_arg)
       THEN pc' = "raised" /\ UNCHANGED cleaned_affiliations
       ELSE pc' = "returned" /\ cleaned_affiliations' = NsfAffiliationCleanup(affiliations_arg)
    /\ UNCHANGED <<coauthors, cleaned_coauthors, affiliations_arg, vars_dedup, vars_pipe>>

NextAffil ==
    CallNsfAffiliationCleanup

SpecAffil ==
    InitAffil /\ [][NextAffil]_vars

-----------------------------------------------------------------------------
(* The seen-set loop run over two iteration orders of the same canonical names *)

InitDedup ==
    /\ pc = "loop_a"
    /\ order_a \in SeqsOf(CanonicalNames, 0, MaxNames)
    /\ order_b \in { b \in SeqsOf(CanonicalNames, 0, MaxNames) : IsPermutation(order_a, b) }
    /\ dedup_a = DedupStart
    /\ dedup_b = DedupStart
    /\ coauthors = <<>> /\ cleaned_coauthors = <<>>
    /\ affiliations_arg = <<>> /\ cleaned_affiliations = <<>>
    /\ years_back = <<>> /\ filename = <<>> /\ profile = <<>> /\ year_cutoff = <<>>
    /\ papers_subset = <<>> /\ all_coauthors = <<>> /\ affiliations = <<>>
    /\ lookups = <<>> /\ from_pubs = <<>> /\ csv = <<>> /\ result = <<>>

\* one iteration over order_a
DedupIterateA ==
    /\ pc = "loop_a"
    /\ dedup_a.i <= Len(order_a)
    /\ ~DedupIterationRaises(order_a[dedup_a.i])
    /\ dedup_a' = DedupIteration(dedup_a, order_a[dedup_a.i])
    /\ UNCHANGED <<pc, order_a, order_b, dedup_b, vars_fn, vars_pipe>>

\* the loop over order_a ends
DedupEndA ==
    /\ pc = "loop_a"
    /\ dedup_a.i > Len(order_a)
    /\ pc' = "loop_b"
    /\ UNCHANGED <<vars_dedup, vars_fn, vars_pipe>>

\* one iteration over order_b
DedupIterateB ==
    /\ pc = "loop_b"
    /\ dedup_b.i <= Len(order_b)
    /\ ~DedupIterationRaises(order_b[dedup_b.i])
    /\ dedup_b' = DedupIteration(dedup_b, order_b[dedup_b.i])
    /\ UNCHANGED <<pc, order_a, order_b, dedup_a, vars_fn, vars_pipe>>

\* the loop over order_b ends
DedupEndB ==
    /\ pc = "loop_b"
    /\ dedup_b.i > Len(order_b)
    /\ pc' = "done"
    /\ UNCHANGED <<vars_dedup, vars_fn, vars_pipe>>

NextDedup ==
    \/ DedupIterateA
    \/ DedupEndA
    \/ DedupIterateB
    \/ DedupEndB

SpecDedup ==
    InitDedup /\ [][NextDedup]_vars

-----------------------------------------------------------------------------
(* get_coauthors, from its call to its return *)

Init ==
    /\ pc = "start"
    /\ years_back \in YearsBack
    /\ filename \in Filenames
    /\ profile \in [name : ProfileNames, publications : SeqsOf(Papers, 0, MaxPapers)]
    /\ year_cutoff = <<>>
    /\ papers_subset = <<>>
    /\ all_coauthors = <<>>
    /\ affiliations = <<>>
    /\ lookups = <<>>
    /\ from_pubs = <<>>
    /\ csv = <<>>
    /\ result = <<>>
    /\ coauthors = <<>> /\ cleaned_coauthors = <<>>
    /\ affiliations_arg = <<>> /\ cleaned_affiliations = <<>>
    /\ order_a = <<>> /\ order_b = <<>> /\ dedup_a = DedupStart /\ dedup_b = DedupStart

\* lines 52-58 and 117-126: the cutoff, the profile, the year filter
FilterPapers ==
    /\ pc = "start"
    /\ year_cutoff' = YearCutoff(years_back)
    /\ papers_subset' = FilterByYear(profile.publications, year_cutoff')
    /\ pc' = "fetch"
    /\ UNCHANGED <<all_coauthors, affiliations, lookups, from_pubs>>
    /\ UNCHANGED <<vars_in, vars_out, vars_fn, vars_dedup>>

\* lines 129-134: the authors of every retained paper
FetchAuthors ==
    /\ pc = "fetch"
    /\ all_coauthors' = FetchAllCoauthors(papers_subset)
    /\ pc' = "dedup"
    /\ UNCHANGED <<year_cutoff, papers_subset, affiliations, lookups, from_pubs>>
    /\ UNCHANGED <<vars_in, vars_out, vars_fn, vars_dedup>>

\* lines 140-165: exact duplicates removed in an arbitrary order, names cleaned,
\* the seen-set loop, the own name removed, the list sorted
DedupAndSort ==
    /\ pc = "dedup"
    /\ \E order \in ListOfSet(all_coauthors) :
          IF NsfNameCleanupRaises(order) \/ DedupRaises(NsfNameCleanup(order))
          THEN pc' = "raised" /\ UNCHANGED all_coauthors
          ELSE /\ all_coauthors' =
                      Sorted(RemoveSelf(Dedup(NsfNameCleanup(order)), profile.name))
               /\ pc' = "lookup"
    /\ UNCHANGED <<year_cutoff, papers_subset, affiliations, lookups, from_pubs>>
    /\ UNCHANGED <<vars_in, vars_out, vars_fn, vars_dedup>>

\* lines 168-173: one iteration of the lookup loop
Lookup ==
    /\ pc = "lookup"
    /\ Len(affiliations) < Len(all_coauthors)
    /\ \E outcome \in LookupOutcomes :
          /\ affiliations' = Append(affiliations, GetScholarInfo(outcome))
          /\ lookups' = Append(lookups,
                 [name |-> all_coauthors[Len(affiliations) + 1], outcome |-> outcome])
    /\ UNCHANGED <<pc, year_cutoff, papers_subset, all_coauthors, from_pubs>>
    /\ UNCHANGED <<vars_in, vars_out, vars_fn, vars_dedup>>

\* lines 176-179: the affiliations cleaned, the two lists returned
CleanupAndReturn ==
    /\ pc = "lookup"
    /\ Len(affiliations) = Len(all_coauthors)
    /\ IF NsfAffiliationCleanupRaises(affiliations)
       THEN pc' = "raised" /\ UNCHANGED <<affiliations, from_pubs>>
       ELSE /\ affiliations' = NsfAffiliationCleanup(affiliations)
            /\ from_pubs' = [co_authors |-> all_coauthors, affiliations |-> affiliations']
            /\ pc' = "returned"
    /\ UNCHANGED <<year_cutoff, papers_subset, all_coauthors, lookups>>
    /\ UNCHANGED <<vars_in, vars_out, vars_fn, vars_dedup>>

\* lines 61-63 with a filename: _dump_to_csv (lines 275-278), then the return
DumpAndReturn ==
    /\ pc = "returned"
    /\ TruthyStr(filename)
    /\ csv' = DumpedLines(all_coauthors, affiliations)
    /\ all_coauthors' = DumpedCoauthors(all_coauthors)
    /\ result' = all_coauthors'
    /\ pc' = "done"
    /\ UNCHANGED <<year_cutoff, papers_subset, affiliations, lookups, from_pubs>>
    /\ UNCHANGED <<vars_in, vars_fn, vars_dedup>>

\* lines 61-63 without a filename
ReturnOnly ==
    /\ pc = "returned"
    /\ ~TruthyStr(filename)
    /\ result' = all_coauthors
    /\ pc' = "done"
    /\ UNCHANGED <<csv, vars_pubs, vars_in, vars_fn, vars_dedup>>

Next ==
    \/ FilterPapers
    \/ FetchAuthors
    \/ DedupAndSort
    \/ Lookup
    \/ CleanupAndReturn
    \/ DumpAndReturn
    \/ ReturnOnly

Spec ==
    Init /\ [][Next]_vars

-----------------------------------------------------------------------------
(* C1: the result of the seen-set loop has exactly one name for each PersonKey
   of the input, every result name is an input name, names with different
   PersonKeys are never merged, and when the input holds the bare variant and a
   variant with a middle name for a PersonKey, the survivor is not the bare one. *)
LastNameOf(name) ==
    SubSeq(name, 1, Find(name, COMMA_SPACE) - 1)

FirstSegmentOf(name) ==
    From(name, Find(name, COMMA_SPACE) + Len(COMMA_SPACE))

FirstTokenOf(name) ==
    LET seg == FirstSegmentOf(name)
    IN  IF Contains(seg, SPACE) THEN SubSeq(seg, 1, Find(seg, SPACE) - 1) ELSE seg

PersonKey(name) ==
    <<LastNameOf(name), FirstTokenOf(name)>>

IsBare(name) ==
    FirstSegmentOf(name) = FirstTokenOf(name)

OnePerPersonKey(input, unique) ==
    /\ \A n \in Range(input) :
          Cardinality({i \in 1..Len(unique) : PersonKey(unique[i]) = PersonKey(n)}) = 1
    /\ Range(unique) \subseteq Range(input)
    /\ Len(unique) = Cardinality({PersonKey(n) : n \in Range(input)})
    /\ \A n, m \in Range(input) :
          PersonKey(n) = PersonKey(m) /\ IsBare(n) /\ ~IsBare(m)
              => ~InList(unique, n)

C1_Dedup ==
    pc = "done" => /\ OnePerPersonKey(order_a, dedup_a.unique_coauthors)
                   /\ OnePerPersonKey(order_b, dedup_b.unique_coauthors)

\* reached: a bare Smith, John seen before Smith, John A, next to another person
C1_Witness ==
    /\ pc = "done"
    /\ Len(order_a) = 3
    /\ IsBare(order_a[1]) /\ ~IsBare(order_a[2])
    /\ PersonKey(order_a[1]) = PersonKey(order_a[2])
    /\ PersonKey(order_a[3]) # PersonKey(order_a[1])
    /\ dedup_a.unique_coauthors = <<order_a[3], order_a[2]>> \/ dedup_a.unique_coauthors = <<order_a[2], order_a[3]>>

(* C2: the set of names the loop returns is the same for every iteration order
   of the input. *)
C2_OrderIndependent ==
    pc = "done" => Range(dedup_a.unique_coauthors) = Range(dedup_b.unique_coauthors)

SmithJohn == <<"S", "m", "i", "t", "h", ",", " ", "J", "o", "h", "n">>

SmithJohnA == <<"S", "m", "i", "t", "h", ",", " ", "J", "o", "h", "n", " ", "A">>

\* no PersonKey of the input has two different variants with a middle name
AtMostOneRich(input) ==
    \A n, m \in Range(input) :
        PersonKey(n) = PersonKey(m) /\ ~IsBare(n) /\ ~IsBare(m) => n = m

(* C2 as amended: the PersonKeys of the result are the same for every iteration
   order; the names are the same whenever no PersonKey of the input has two
   different variants carrying a middle name; {"Smith, John", "Smith, John A"}
   yields exactly {"Smith, John A"}. *)
C2_OrderIndependentOneRich ==
    pc = "done" =>
        /\ { PersonKey(n) : n \in Range(dedup_a.unique_coauthors) }
               = { PersonKey(n) : n \in Range(dedup_b.unique_coauthors) }
        /\ AtMostOneRich(order_a)
               => Range(dedup_a.unique_coauthors) = Range(dedup_b.unique_coauthors)
        /\ Range(order_a) = {SmithJohn, SmithJohnA}
               => /\ Range(dedup_a.unique_coauthors) = {SmithJohnA}
                  /\ Range(dedup_b.unique_coauthors) = {SmithJohnA}

\* reached: the bare and the richer Smith, John in the two opposite orders
C2_Witness ==
    /\ pc = "done"
    /\ order_a = <<SmithJohn, SmithJohnA>>
    /\ order_b = <<SmithJohnA, SmithJohn>>
    /\ dedup_a.unique_coauthors = <<SmithJohnA>>
    /\ dedup_b.unique_coauthors = <<SmithJohnA>>

(* C3: for every raw name of n >= 2 tokens the result of _nsf_name_cleanup is
   the last token, ", ", and the tokens before it joined by single spaces, the
   first two of them exchanged iff n > 2 and the first has fewer than 2
   characters; no token is dropped or duplicated. *)
SwapFirstTwo(t) ==
    [i \in 1..Len(t) |-> IF i = 1 THEN t[2] ELSE IF i = 2 THEN t[1] ELSE t[i]]

CanonicalOf(raw) ==
    LET t == Split(raw, SPACE)
        n == Len(t)
        rest == SubSeq(t, 1, n - 1)
    IN  t[n] \o COMMA_SPACE
            \o Join(IF n > 2 /\ Len(t[1]) < 2 THEN SwapFirstTwo(rest) ELSE rest, SPACE)

C3_Canonicalizer ==
    pc # "call" /\ Len(coauthors) = 1 /\ Len(Split(coauthors[1], SPACE)) >= 2
        => pc = "returned" /\ cleaned_coauthors = <<CanonicalOf(coauthors[1])>>

(* C4: an affiliation with a title marker and " at " (case-insensitive) is
   cleaned to the whole substring after the first occurrence of " at ". *)
AfterFirstAt(affiliation) ==
    From(affiliation, Find(Lower(affiliation), AT_WORD) + Len(AT_WORD))

C4_AtRule ==
    pc # "call" /\ Len(affiliations_arg) = 1 /\ affiliations_arg[1] # <<>>
        /\ HasTitle(affiliations_arg[1])
        /\ Contains(Lower(affiliations_arg[1]), AT_WORD)
        => pc = "returned" /\ cleaned_affiliations = <<AfterFirstAt(affiliations_arg[1])>>

-----------------------------------------------------------------------------
(* C5: a publication is retained iff the cutoff is absent, or its year is
   missing, or its year >= cutoff, where the cutoff is absent only when
   years_back is None and is today's year minus years_back otherwise. *)
C5_YearFilter ==
    pc # "start" =>
        \A i \in 1..Len(profile.publications) :
            LET paper == profile.publications[i]
            IN  InList(papers_subset, paper)
                    <=> \/ years_back = <<>>
                        \/ paper.pub_year = <<>>
                        \/ paper.pub_year[1] >= CurrentYear - years_back[1]

(* C6: when the author lists of the retained publications hold the profile's
   name as the profile states it, the canonical form of that name is not in the
   list get_coauthors returns. *)
C6_SelfExcluded ==
    pc = "done" /\ profile.name # <<>>
        /\ InList(FetchAllCoauthors(papers_subset), profile.name)
        => ~InList(result, NsfNameCleanupOne(profile.name))

FailedLookup(lookup) ==
    lookup.outcome.kind \in {"not_found", "error"}

(* C7: a failed lookup (not found, or another exception) never aborts the
   batch, and in the returned list the failed co-author's affiliation is the
   empty string. *)
C7_FailureIsolation ==
    /\ pc = "raised" =>
          \A i \in 1..Len(lookups) :
              FailedLookup(lookups[i]) => ~NsfAffiliationCleanupOneRaises(affiliations[i])
    /\ pc = "returned" =>
          /\ Len(from_pubs.co_authors) = Len(all_coauthors)
          /\ Len(from_pubs.affiliations) = Len(all_coauthors)
          /\ \A i \in 1..Len(lookups) :
                FailedLookup(lookups[i]) => from_pubs.affiliations[i] = <<>>

(* C7 as amended: a failed lookup never aborts the lookup loop: get_scholar_info
   returns a string for it (the empty string when no author is found, the
   diagnostic "An error occurred: <message>" for another exception) and every
   surviving co-author is looked up; whenever _get_coauthors_from_pubs returns,
   it returns an entry for every surviving co-author and the affiliation of a
   co-author that was not found is the empty string. *)
C7_FailureAbsorbed ==
    /\ pc = "lookup" =>
          /\ Len(affiliations) = Len(lookups)
          /\ \A i \in 1..Len(lookups) :
                /\ lookups[i].outcome.kind = "not_found" => affiliations[i] = <<>>
                /\ lookups[i].outcome.kind = "error" =>
                       affiliations[i] = ERROR_PREFIX \o lookups[i].outcome.text
    /\ pc \in {"returned", "raised", "done"} => Len(lookups) = Len(all_coauthors)
    /\ pc = "returned" =>
          /\ Len(from_pubs.co_authors) = Len(all_coauthors)
          /\ Len(from_pubs.affiliations) = Len(all_coauthors)
          /\ \A i \in 1..Len(lookups) :
                lookups[i].outcome.kind = "not_found" => from_pubs.affiliations[i] = <<>>

\* reached: a return after one lookup found nobody and another raised
C7_Witness ==
    /\ pc = "returned"
    /\ Len(lookups) = 2
    /\ lookups[1].outcome.kind = "not_found"
    /\ lookups[2].outcome.kind = "error"
    /\ from_pubs.affiliations[1] = <<>>
    /\ from_pubs.affiliations[2] # <<>>

(* C8: whenever _get_coauthors_from_pubs returns, the two lists have the same
   length N, the names are sorted ascending with no repeated entry (one per
   person), lookups were issued once per name in the order of the sorted list,
   and the affiliation at i is the cleaned result of the lookup for name i. *)
C8_Aligned ==
    pc = "returned" =>
        LET names == from_pubs.co_authors
            affs == from_pubs.affiliations
        IN  /\ Len(affs) = Len(names)
            /\ Len(lookups) = Len(names)
            /\ \A i, j \in 1..Len(names) :
                  i < j => /\ StrLess(names[i], names[j])
                           /\ names[i] # names[j]
                           /\ PersonKey(names[i]) # PersonKey(names[j])
            /\ \A i \in 1..Len(names) :
                  /\ lookups[i].name = names[i]
                  /\ affs[i] = NsfAffiliationCleanupOne(GetScholarInfo(lookups[i].outcome))

\* reached: two co-authors returned, the first affiliation changed by the cleaner
C8_Witness ==
    /\ pc = "returned"
    /\ Len(from_pubs.co_authors) = 2
    /\ lookups[1].outcome.kind = "found"
    /\ lookups[2].outcome.kind = "not_found"
    /\ from_pubs.affiliations[1] # lookups[1].outcome.text
    /\ from_pubs.affiliations[1] = <<"M", "I", "T">>

(* C9: when a lookup raises an exception other than not-found, the affiliation
   returned for that co-author is "An error occurred: " followed by the
   exception message, for every message. *)
C9_DiagnosticKept ==
    pc = "returned" =>
        \A i \in 1..Len(lookups) :
            lookups[i].outcome.kind = "error"
                => from_pubs.affiliations[i] = ERROR_PREFIX \o lookups[i].outcome.text

(* C10: writing the CSV does not change the in-memory result: get_coauthors
   returns the names _get_coauthors_from_pubs returned, with a filename or
   without, and _dump_to_csv leaves the elements of its lists unchanged. *)
C10_WriterFrame ==
    pc = "done" =>
        /\ result = from_pubs.co_authors
        /\ all_coauthors = from_pubs.co_authors
        /\ affiliations = from_pubs.affiliations

====
